---- MODULE Spec2Model ----
(***************************************************************************)
(* Kubernetes metadata resolution of the filter_kubernetes plugin          *)
(* (plugins/filter_kubernetes/kube_meta.c): flb_kube_meta_get and its      *)
(* helpers tag_to_meta, cb_results, get_and_merge_meta,                    *)
(* get_api_server_info and merge_meta, over the flb_hash cache.            *)
(*                                                                         *)
(* Strings are sequences of one-character strings.  A pointer is Nil       *)
(* (NULL / not set) or a one-element sequence holding what it points to.   *)
(* A msgpack buffer holding a map is [size |-> declared size, kv |-> the   *)
(* key/value pairs actually packed]; a msgpack object is a Str or a Map.   *)
(***************************************************************************)
EXTENDS Integers, Sequences, FiniteSets, TLC

VARIABLES
    ctx_upstream,   \* ctx->upstream is not NULL
    hash_table,     \* ctx->hash_table: sequence of [key, val], id = index - 1
    pc,             \* position of each caller inside flb_kube_meta_get
    tag,            \* the regex result for the tag being resolved (named groups)
    meta,           \* struct flb_kube_meta of the call
    api_buf,        \* get_and_merge_meta: api_buf
    out_meta_buf,   \* flb_kube_meta_get: out_meta_buf
    out_buf,        \* the caller's *out_buf: Nil (never written) or <<id>>
    ret,            \* value returned by flb_kube_meta_get
    live,           \* heap blocks allocated by the call and not yet freed
    g,              \* history of the call in progress (what happened so far)
    history,        \* history: every successful flb_hash_add with its origin
    prev            \* history: tag of the previous call if it ended on a
                    \* response without metadata, else Nil

vars == <<ctx_upstream, hash_table, pc, tag, meta, api_buf, out_meta_buf,
          out_buf, ret, live, g, history, prev>>

----------------------------------------------------------------------------
(* Bounds of the exhaustive single-call specification SpecOne *)
MaxGroups == 3      \* named groups reported for one tag
MaxMetaLen == 4     \* entries of the response's metadata map

Procs == {1, 2}

Nil == <<>>
Ptr(x) == <<x>>

Str(s) == [type |-> "str", str |-> s, map |-> <<>>]
Map(m) == [type |-> "map", str |-> <<>>, map |-> m]
KV(k, v) == [k |-> k, v |-> v]
Buf(kv) == [size |-> Len(kv), kv |-> kv]

Digit == <<"1", "2", "3", "4", "5", "6", "7", "8", "9">>

RECURSIVE SeqsUpTo(_, _)
SeqsUpTo(S, n) ==
    IF n = 0 THEN {<<>>}
    ELSE LET R == SeqsUpTo(S, n - 1)
         IN  R \cup {Append(r, s) : r \in {x \in R : Len(x) = n - 1}, s \in S}

----------------------------------------------------------------------------
(* Inputs: what the regex engine reports for a tag, and what the API       *)
(* server answers.                                                         *)

Group(name, value) == [name |-> name, value |-> value]

PodA == <<"p", "a">>
PodB == <<"p", "b">>
NsD == <<"d">>
Cont1 == <<"c", "1">>
Cont2 == <<"c", "2">>

\* Regex results of the tags the callers resolve; <<>> is a tag that does
\* not match (flb_regex_do returns n <= 0).
Tags ==
    { <<>>,
      <<Group("pod_name", PodA), Group("namespace_name", NsD),
        Group("container_name", Cont1)>>,
      <<Group("pod_name", PodA), Group("namespace_name", NsD),
        Group("container_name", Cont2)>>,
      <<Group("namespace_name", NsD), Group("pod_name", PodB)>>,
      <<Group("pod_name", PodA), Group("container_name", Cont1)>>,
      <<Group("namespace_name", NsD), Group("container_name", Cont1)>>,
      <<Group("pod_name", PodA), Group("pod_name", PodB),
        Group("namespace_name", NsD)>> }

GroupNames == {"pod_name", "namespace_name", "container_name"}
GroupValues == {<<"a">>, <<"b", "c">>}
GenTags ==
    SeqsUpTo({Group(n, v) : n \in GroupNames, v \in GroupValues}, MaxGroups)

MetaKeys == {"uid", "labels", "annotations", "name"}

\* The metadata map with the given keys; the value of entry i names i, so
\* two occurrences of one key carry different values.
MetaOf(ks) == [i \in 1..Len(ks) |-> KV(ks[i], Str(<<ks[i], Digit[i]>>))]

Pod == Str(<<"P", "o", "d">>)
Response(ks) == Buf(<<KV("kind", Pod), KV("metadata", Map(MetaOf(ks)))>>)

Responses ==
    { Buf(<<KV("kind", Pod)>>),
      Response(<<>>),
      Response(<<"name", "uid", "labels">>),
      Response(<<"annotations", "labels", "uid">>),
      Response(<<"uid", "uid">>),
      Buf(<<KV("metadata", Map(MetaOf(<<"labels">>))),
            KV("metadata", Map(MetaOf(<<"uid">>)))>>) }

GenResponses ==
    { Buf(<<>>), Buf(<<KV("kind", Pod)>>),
      Buf(<<KV("metadata", Map(MetaOf(<<"uid">>))), KV("kind", Pod)>>) }
    \cup {Response(ks) : ks \in SeqsUpTo(MetaKeys, MaxMetaLen)}

\* Outcomes of one get_api_server_info call, besides a usable body.
FetchFailures ==
    {"no_connection", "uri_error", "http_error", "bad_status", "json_error"}

\* What the collaborators of get_api_server_info answer in one call:
\* flb_upstream_conn_get gives a connection or not, snprintf, flb_http_do and
\* flb_pack_json return 0 or -1, and status is c->resp.status.
FetchOk ==
    [conn |-> TRUE, snprintf |-> 0, http_do |-> 0, status |-> 200,
     pack_json |-> 0]
FetchEnv(f) ==
    IF f = "no_connection" THEN [FetchOk EXCEPT !.conn = FALSE]
    ELSE IF f = "uri_error" THEN [FetchOk EXCEPT !.snprintf = 0 - 1]
    ELSE IF f = "http_error" THEN [FetchOk EXCEPT !.http_do = 0 - 1]
    ELSE IF f = "bad_status" THEN [FetchOk EXCEPT !.status = 404]
    ELSE IF f = "json_error" THEN [FetchOk EXCEPT !.pack_json = 0 - 1]
    ELSE FetchOk
FetchEnvs == {FetchEnv(f) : f \in FetchFailures \cup {"ok"}}

----------------------------------------------------------------------------
(* tag_to_meta and cb_results *)

\* struct flb_kube_meta meta = {}
MetaZero ==
    [podname |-> Nil, podname_len |-> 0, namespace |-> Nil, namespace_len |-> 0,
     cache_key |-> Nil, cache_key_len |-> 0, mp_sbuf |-> Nil]

\* cb_results without the `== NULL` tests: a later pod_name or
\* namespace_name group replaces the one captured before.
cb_results_last(m, name, value) ==
    LET m1 == IF name = "pod_name"
              THEN [m EXCEPT !.podname = Ptr(value), !.podname_len = Len(value)]
              ELSE IF name = "namespace_name"
              THEN [m EXCEPT !.namespace = Ptr(value),
                             !.namespace_len = Len(value)]
              ELSE m
        sb == m.mp_sbuf[1]
    IN  [m1 EXCEPT !.mp_sbuf =
            Ptr([size |-> sb.size, kv |-> Append(sb.kv, KV(name, Str(value)))])]

\* One call of the regex callback: keeps the first pod_name and the first
\* namespace_name, and packs every group into the local record.
cb_results(m, name, value) ==
    LET m1 == IF m.podname = Nil /\ name = "pod_name"
              THEN [m EXCEPT !.podname = Ptr(value), !.podname_len = Len(value)]
              ELSE IF m.namespace = Nil /\ name = "namespace_name"
              THEN [m EXCEPT !.namespace = Ptr(value),
                             !.namespace_len = Len(value)]
              ELSE m
        sb == m.mp_sbuf[1]
    IN  [m1 EXCEPT !.mp_sbuf =
            Ptr([size |-> sb.size, kv |-> Append(sb.kv, KV(name, Str(value)))])]

\* flb_regex_parse: the callback on every named group, in order.
RECURSIVE flb_regex_parse(_, _, _)
flb_regex_parse(groups, i, m) ==
    IF i > Len(groups) THEN m
    ELSE flb_regex_parse(groups, i + 1,
                         cb_results(m, groups[i].name, groups[i].value))

\* The test with || for &&: a key is composed from one field alone.
CacheKeyCond_either(m) == m.podname # Nil \/ m.namespace # Nil

\* if (meta->podname && meta->namespace)
CacheKeyCond(m) == m.podname # Nil /\ m.namespace # Nil

\* The two copies swapped: podname, ':', namespace.
ComposeKey_swapped(m) ==
    LET len == m.podname_len + m.namespace_len + 1
        off == m.podname_len
    IN  [i \in 1..len |->
            IF i <= off THEN m.podname[1][i]
            ELSE IF i = off + 1 THEN ":"
            ELSE m.namespace[1][i - (off + 1)]]

\* The bytes written into meta->cache_key: namespace, ':', podname.
ComposeKey(m) ==
    LET len == m.podname_len + m.namespace_len + 1
        off == m.namespace_len
    IN  [i \in 1..len |->
            IF i <= off THEN m.namespace[1][i]
            ELSE IF i = off + 1 THEN ":"
            ELSE m.podname[1][i - (off + 1)]]

\* The test with < for <=: a match that reports no group goes on.
RegexFailed_strict(n) == n < 0

\* n = flb_regex_do(...); if (n <= 0) return -1;
RegexFailed(n) == n <= 0

\* Heap blocks held by a meta.
MetaBlocks(m) ==
    {b \in {"mp_sbuf", "podname", "namespace", "cache_key"} :
        \/ b = "mp_sbuf" /\ m.mp_sbuf # Nil
        \/ b = "podname" /\ m.podname # Nil
        \/ b = "namespace" /\ m.namespace # Nil
        \/ b = "cache_key" /\ m.cache_key # Nil}

\* tag_to_meta on the regex result `groups`; malloc_ok is whether the
\* allocation of the cache key succeeds.  The local record (*out_buf) is
\* meta.mp_sbuf.
\* n, the count flb_regex_do returns, is the number of groups that
\* flb_regex_parse then reports; the sbuffer is allocated by its first write.
tag_to_meta(groups, malloc_ok) ==
    LET n == Len(groups)
        m0 == [MetaZero EXCEPT !.mp_sbuf = Ptr([size |-> n, kv |-> <<>>])]
        m1 == flb_regex_parse(groups, 1, m0)
        klen == m1.podname_len + m1.namespace_len + 1
    IN  IF RegexFailed(n) THEN [ret |-> -1, meta |-> MetaZero]
        ELSE IF CacheKeyCond(m1)
        THEN IF malloc_ok
             THEN [ret |-> 0,
                   meta |-> [m1 EXCEPT !.cache_key = Ptr(ComposeKey(m1)),
                                       !.cache_key_len = klen]]
             ELSE [ret |-> -1,
                   meta |-> [m1 EXCEPT !.cache_key_len = klen, !.mp_sbuf = Nil]]
        ELSE [ret |-> 0, meta |-> m1]

----------------------------------------------------------------------------
(* merge_meta *)

\* The lookup without the meta_found test: a response without "metadata"
\* is merged as one with an empty metadata map.
MetaLookup_unchecked(api) ==
    LET hits == {i \in 1..api.size : api.kv[i].k = "metadata"}
    IN  IF hits = {} THEN [found |-> TRUE, val |-> <<>>]
        ELSE [found |-> TRUE,
              val |-> api.kv[CHOOSE i \in hits : \A j \in hits : i <= j].v.map]

\* The lookup of the top-level "metadata" key: first match.
MetaLookup(api) ==
    LET hits == {i \in 1..api.size : api.kv[i].k = "metadata"}
    IN  IF hits = {} THEN [found |-> FALSE, val |-> <<>>]
        ELSE [found |-> TRUE,
              val |-> api.kv[CHOOSE i \in hits : \A j \in hits : i <= j].v.map]

\* The scan of the metadata map, entry i onwards (i counts from 0 as in the
\* code), stopping once the three fields have been seen.
RECURSIVE ScanMeta(_, _, _)
ScanMeta(mv, i, st) ==
    IF i >= Len(mv) THEN st
    ELSE LET k == mv[i + 1].k
             st1 == IF k = "uid"
                    THEN [st EXCEPT !.have_uid = i, !.map_size = @ + 1]
                    ELSE IF k = "labels"
                    THEN [st EXCEPT !.have_labels = i, !.map_size = @ + 1]
                    ELSE IF k = "annotations"
                    THEN [st EXCEPT !.have_annotations = i, !.map_size = @ + 1]
                    ELSE st
         IN  IF st1.have_uid >= 0 /\ st1.have_labels >= 0
                /\ st1.have_annotations >= 0
             THEN st1
             ELSE ScanMeta(mv, i + 1, st1)

\* The three fields appended in the order the response lists them.
EmitApiFields_as_listed(mv, st) ==
    LET idx == {i \in {st.have_uid, st.have_labels, st.have_annotations} : i >= 0}
        RECURSIVE Emit(_)
        Emit(i) ==
            IF i >= Len(mv) THEN <<>>
            ELSE (IF i \in idx
                  THEN <<KV(IF i = st.have_uid THEN "pod_id" ELSE mv[i + 1].k,
                            mv[i + 1].v)>>
                  ELSE <<>>) \o Emit(i + 1)
    IN  Emit(0)

\* Append API Server content: pod_id, labels, annotations.
EmitApiFields(mv, st) ==
    (IF st.have_uid >= 0
     THEN <<KV("pod_id", mv[st.have_uid + 1].v)>> ELSE <<>>)
    \o (IF st.have_labels >= 0
        THEN <<KV(mv[st.have_labels + 1].k, mv[st.have_labels + 1].v)>>
        ELSE <<>>)
    \o (IF st.have_annotations >= 0
        THEN <<KV(mv[st.have_annotations + 1].k, mv[st.have_annotations + 1].v)>>
        ELSE <<>>)

\* merge_meta(reg_buf, api_buf): reg is the local record packed by
\* tag_to_meta (always a map), api the unpacked response.
merge_meta(reg, api) ==
    LET ml == MetaLookup(api)
        st == ScanMeta(ml.val, 0,
                       [have_uid |-> -1, have_labels |-> -1,
                        have_annotations |-> -1, map_size |-> reg.size])
    IN  IF ~ml.found THEN [ret |-> -1, out |-> Nil]
        ELSE [ret |-> 0,
              out |-> Ptr([size |-> st.map_size,
                           kv |-> SubSeq(reg.kv, 1, reg.size)
                                  \o EmitApiFields(ml.val, st)])]

----------------------------------------------------------------------------
(* The cache: flb_hash_get, flb_hash_add, flb_hash_get_by_id *)

KeyBytes(key, len) == SubSeq(key[1], 1, len)

HashSlots(ht, key, len) ==
    IF key = Nil THEN {}
    ELSE {i \in 1..Len(ht) : ht[i].key = KeyBytes(key, len)}

\* get(key): the id of the entry, or -1 when there is none (or no key).
\* When the key was put more than once, the last write is the one observed.
flb_hash_get(ht, key, len) ==
    IF HashSlots(ht, key, len) = {} THEN -1
    ELSE (CHOOSE i \in HashSlots(ht, key, len) :
             \A j \in HashSlots(ht, key, len) : j <= i) - 1

\* put(key, val): a copy of val is stored under a new id; store_ok is
\* whether the store can take it.  No entry is made without a key.  An
\* entry, once made, is never changed or released: the copy made by an
\* earlier put of the same key stays where its id says.
flb_hash_add(ht, key, len, val, store_ok) ==
    IF key = Nil \/ ~store_ok THEN [id |-> -1, ht |-> ht]
    ELSE [id |-> Len(ht),
          ht |-> Append(ht, [key |-> KeyBytes(key, len), val |-> val])]

\* getByID(id): the reference to the cache-owned copy.
flb_hash_get_by_id(ht, id) == Ptr(id)

\* What a reference returned by the cache points to.
Deref(ht, ref) == ht[ref[1] + 1].val

----------------------------------------------------------------------------
(* flb_kube_meta_get, one step at a time *)

GZero ==
    [failed |-> "none",     \* the step that failed, if any
     lookup |-> "none",     \* "hit" or "miss" once flb_hash_get has run
     nfetch |-> 0,          \* calls of get_api_server_info
     nhttp |-> 0,           \* HTTP requests issued (flb_http_do)
     nadd |-> 0,            \* calls of flb_hash_add
     nfree |-> 0,           \* calls of flb_free(out_meta_buf)
     id |-> 0 - 1,          \* the local `id`, once flb_hash_add has returned
     env |-> Nil,           \* what the collaborators answered to the fetch
     resp |-> Nil,          \* the response fetched, kept after api_buf is freed
     pre |-> <<>>,          \* the cache when the call started
     retry |-> FALSE]       \* the previous call resolved this same tag and
                            \* ended on a response without metadata

\* What an uninitialised out_meta_buf is taken to hold.
Uninit == [size |-> 0 - 1, kv |-> <<>>]
Content(ptr) == IF ptr = Nil THEN Uninit ELSE ptr[1]

Init ==
    /\ ctx_upstream \in BOOLEAN
    /\ hash_table = <<>>
    /\ pc = [p \in Procs |-> "idle"]
    /\ tag = [p \in Procs |-> <<>>]
    /\ meta = [p \in Procs |-> MetaZero]
    /\ api_buf = [p \in Procs |-> Nil]
    /\ out_meta_buf = [p \in Procs |-> Nil]
    /\ out_buf = [p \in Procs |-> Nil]
    /\ ret = [p \in Procs |-> 0]
    /\ live = [p \in Procs |-> {}]
    /\ g = [p \in Procs |-> GZero]
    /\ history = {}
    /\ prev = Nil

\* No call is in progress: the filter resolves one record at a time.
Quiet == \A q \in Procs : pc[q] = "idle"

\* A caller enters flb_kube_meta_get with a tag.
Call(p, tags) ==
    /\ pc[p] = "idle"
    /\ \E t \in tags :
        /\ tag' = [tag EXCEPT ![p] = t]
        /\ g' = [g EXCEPT ![p] = [GZero EXCEPT !.pre = hash_table,
                                               !.retry = (prev = Ptr(t))]]
    /\ pc' = [pc EXCEPT ![p] = "tag_to_meta"]
    /\ UNCHANGED <<ctx_upstream, hash_table, meta, api_buf, out_meta_buf,
                   out_buf, ret, live, history, prev>>

\* ret = tag_to_meta(...); if (ret != 0) return -1;
TagToMeta(p) ==
    /\ pc[p] = "tag_to_meta"
    /\ \E malloc_ok \in BOOLEAN :
        LET r == tag_to_meta(tag[p], malloc_ok)
        IN  /\ meta' = [meta EXCEPT ![p] = r.meta]
            /\ live' = [live EXCEPT ![p] = MetaBlocks(r.meta)]
            /\ IF r.ret # 0
               THEN /\ ret' = [ret EXCEPT ![p] = 0 - 1]
                    /\ pc' = [pc EXCEPT ![p] = "done"]
                    /\ g' = [g EXCEPT ![p].failed =
                                IF Len(tag[p]) <= 0 THEN "parse" ELSE "keyalloc"]
               ELSE /\ pc' = [pc EXCEPT ![p] = "hash_get"]
                    /\ UNCHANGED <<ret, g>>
    /\ UNCHANGED <<ctx_upstream, hash_table, tag, api_buf, out_meta_buf,
                   out_buf, history, prev>>

\* The branch taken as if every lookup had missed.
AfterHashGet_always_fetch(r) == "get_api_server_info"

\* if (ret == -1) { get_and_merge_meta ... } else { *out_buf = hash_meta_buf }
AfterHashGet(r) == IF r = 0 - 1 THEN "get_api_server_info" ELSE "out"

\* The caller is handed the first entry of the store, whatever was found.
HitOutBuf_first(r) == Ptr(0)

\* *out_buf = hash_meta_buf; *out_size = hash_meta_size;
HitOutBuf(r) == Ptr(r)

\* ret = flb_hash_get(ctx->hash_table, meta.cache_key, meta.cache_key_len, ...)
HashGet(p) ==
    /\ pc[p] = "hash_get"
    /\ LET r == flb_hash_get(hash_table, meta[p].cache_key,
                             meta[p].cache_key_len)
       IN  /\ pc' = [pc EXCEPT ![p] = AfterHashGet(r)]
           /\ out_buf' = [out_buf EXCEPT ![p] =
                             IF r = 0 - 1 THEN @ ELSE HitOutBuf(r)]
           /\ g' = [g EXCEPT ![p].lookup = IF r = 0 - 1 THEN "miss" ELSE "hit"]
    /\ UNCHANGED <<ctx_upstream, hash_table, tag, meta, api_buf, out_meta_buf,
                   ret, live, history, prev>>

\* The test with && for ||: one of the two being right is enough.
HttpFailed_both(e) == e.http_do # 0 /\ e.status # 200

\* if (ret != 0 || c->resp.status != 200)
HttpFailed(e) == e.http_do # 0 \/ e.status # 200

\* get_api_server_info with the upstream set or not, the answers e of its
\* collaborators and the body the server sends: the value returned, *out_buf
\* and the number of HTTP requests made.
get_api_server_info(upstream, e, body) ==
    IF ~upstream THEN [ret |-> -1, out |-> Nil, nhttp |-> 0]
    ELSE IF ~e.conn THEN [ret |-> -1, out |-> Nil, nhttp |-> 0]
    ELSE IF e.snprintf = -1 THEN [ret |-> -1, out |-> Nil, nhttp |-> 0]
    ELSE IF HttpFailed(e) THEN [ret |-> -1, out |-> Nil, nhttp |-> 1]
    ELSE IF e.pack_json = -1 THEN [ret |-> -1, out |-> Nil, nhttp |-> 1]
    ELSE [ret |-> 0, out |-> Ptr(body), nhttp |-> 1]

\* get_and_merge_meta, first half: get_api_server_info(ctx, meta->namespace,
\* meta->podname, &api_buf, &api_size); a failure returns -1 to
\* flb_kube_meta_get, which jumps to out.
GetApiServerInfo(p, responses) ==
    /\ pc[p] = "get_api_server_info"
    /\ \E e \in FetchEnvs : \E body \in responses :
        LET r == get_api_server_info(ctx_upstream, e, body)
        IN  /\ api_buf' = [api_buf EXCEPT ![p] = r.out]
            /\ g' = [g EXCEPT ![p].nfetch = @ + 1,
                              ![p].nhttp = @ + r.nhttp,
                              ![p].env = Ptr(e),
                              ![p].resp = r.out,
                              ![p].failed = IF r.ret = 0 THEN @ ELSE "fetch"]
            /\ live' = [live EXCEPT ![p] =
                           IF r.ret = 0 THEN @ \cup {"api_buf"} ELSE @]
            /\ pc' = [pc EXCEPT ![p] =
                         IF r.ret = 0 - 1 THEN "out" ELSE "merge_meta"]
    /\ UNCHANGED <<ctx_upstream, hash_table, tag, meta, out_meta_buf, out_buf,
                   ret, history, prev>>

\* The return value of get_and_merge_meta not tested.
AfterMerge_unchecked(r) == "hash_add"

\* get_and_merge_meta returned -1: goto out; otherwise go on to flb_hash_add.
AfterMerge(r) == IF r = 0 - 1 THEN "out" ELSE "hash_add"

\* get_and_merge_meta, second half: merge_meta(local_buf, api_buf, ...);
\* flb_free(api_buf).
MergeMeta(p) ==
    /\ pc[p] = "merge_meta"
    /\ LET r == merge_meta(meta[p].mp_sbuf[1], api_buf[p][1])
       IN  /\ out_meta_buf' = [out_meta_buf EXCEPT ![p] = r.out]
           /\ live' = [live EXCEPT ![p] =
                          (@ \ {"api_buf"})
                          \cup (IF r.ret = 0 THEN {"merge_buf"} ELSE {})]
           /\ g' = [g EXCEPT ![p].failed = IF r.ret = 0 THEN @ ELSE "merge"]
           /\ pc' = [pc EXCEPT ![p] = AfterMerge(r.ret)]
    /\ api_buf' = [api_buf EXCEPT ![p] = Nil]
    /\ UNCHANGED <<ctx_upstream, hash_table, tag, meta, out_buf, ret, history,
                   prev>>

\* id = flb_hash_add(ctx->hash_table, meta.cache_key, meta.cache_key_len,
\* out_meta_buf, out_meta_size); a negative id falls through to out.
HashAdd(p) ==
    /\ pc[p] = "hash_add"
    /\ \E store_ok \in BOOLEAN :
        LET val == Content(out_meta_buf[p])
            r == flb_hash_add(hash_table, meta[p].cache_key,
                              meta[p].cache_key_len, val, store_ok)
        IN  /\ hash_table' = r.ht
            /\ IF r.id >= 0
               THEN /\ g' = [g EXCEPT ![p].nadd = @ + 1, ![p].id = r.id]
                    /\ pc' = [pc EXCEPT ![p] = "get_by_id"]
                    /\ history' = history \cup
                          {[key |-> KeyBytes(meta[p].cache_key,
                                             meta[p].cache_key_len),
                            val |-> val,
                            namespace |-> meta[p].namespace,
                            podname |-> meta[p].podname,
                            local |-> meta[p].mp_sbuf,
                            resp |-> g[p].resp,
                            failed |-> g[p].failed]}
               ELSE /\ g' = [g EXCEPT ![p].nadd = @ + 1, ![p].failed = "insert"]
                    /\ pc' = [pc EXCEPT ![p] = "out"]
                    /\ UNCHANGED history
    /\ UNCHANGED <<ctx_upstream, tag, meta, api_buf, out_meta_buf, out_buf,
                   ret, live, prev>>

\* The address of the transient out_meta_buf, as a value of *out_buf.
TransientRef == Ptr(0 - 1)

\* The caller is handed the transient buffer that has just been freed.
AddedOutBuf_transient(ht, id) == TransientRef

\* The caller is handed the first entry of the store, whatever the id.
AddedOutBuf_first(ht, id) == flb_hash_get_by_id(ht, 0)

\* flb_hash_get_by_id(ctx->hash_table, id, out_buf, out_size);
AddedOutBuf(ht, id) == flb_hash_get_by_id(ht, id)

\* if (id >= 0): flb_free(out_meta_buf); then *out_buf is read back from the
\* store by the id flb_hash_add returned; goto out.
GetById(p) ==
    /\ pc[p] = "get_by_id"
    /\ live' = [live EXCEPT ![p] = @ \ {"merge_buf"}]
    /\ g' = [g EXCEPT ![p].nfree = @ + 1]
    /\ out_buf' = [out_buf EXCEPT ![p] = AddedOutBuf(hash_table, g[p].id)]
    /\ pc' = [pc EXCEPT ![p] = "out"]
    /\ UNCHANGED <<ctx_upstream, hash_table, tag, meta, api_buf, out_meta_buf,
                   ret, history, prev>>

\* out: msgpack_sbuffer_destroy(&meta.mp_sbuf); flb_free(meta.cache_key);
\* flb_free(meta.podname); flb_free(meta.namespace); return 0;
Out(p) ==
    /\ pc[p] = "out"
    /\ live' = [live EXCEPT ![p] =
                   @ \ {"mp_sbuf", "cache_key", "podname", "namespace"}]
    /\ ret' = [ret EXCEPT ![p] = 0]
    /\ pc' = [pc EXCEPT ![p] = "done"]
    /\ UNCHANGED <<ctx_upstream, hash_table, tag, meta, api_buf, out_meta_buf,
                   out_buf, g, history, prev>>

\* The caller takes the result; the locals of the call are gone.
Return(p) ==
    /\ pc[p] = "done"
    /\ prev' = IF g[p].failed = "merge" THEN Ptr(tag[p]) ELSE Nil
    /\ pc' = [pc EXCEPT ![p] = "idle"]
    /\ tag' = [tag EXCEPT ![p] = <<>>]
    /\ meta' = [meta EXCEPT ![p] = MetaZero]
    /\ out_meta_buf' = [out_meta_buf EXCEPT ![p] = Nil]
    /\ out_buf' = [out_buf EXCEPT ![p] = Nil]
    /\ ret' = [ret EXCEPT ![p] = 0]
    /\ live' = [live EXCEPT ![p] = {}]
    /\ g' = [g EXCEPT ![p] = GZero]
    /\ UNCHANGED <<ctx_upstream, hash_table, api_buf, history>>

\* Sequential resolution of the tags in Tags against the answers in Responses.
Next ==
    \E p \in Procs :
        \/ Quiet /\ Call(p, Tags)
        \/ TagToMeta(p)
        \/ HashGet(p)
        \/ GetApiServerInfo(p, Responses)
        \/ MergeMeta(p)
        \/ HashAdd(p)
        \/ GetById(p)
        \/ Out(p)
        \/ Return(p)

Spec == Init /\ [][Next]_vars

\* One resolution on an empty cache, over every regex result in GenTags.
NextTag ==
    \E p \in Procs :
        \/ Quiet /\ Call(p, GenTags)
        \/ TagToMeta(p)
        \/ HashGet(p)
        \/ GetApiServerInfo(p, Responses)
        \/ MergeMeta(p)
        \/ HashAdd(p)
        \/ GetById(p)
        \/ Out(p)

SpecTag == Init /\ [][NextTag]_vars

\* One resolution on an empty cache, over every answer in GenResponses.
NextMerge ==
    \E p \in Procs :
        \/ Quiet /\ Call(p, Tags)
        \/ TagToMeta(p)
        \/ HashGet(p)
        \/ GetApiServerInfo(p, GenResponses)
        \/ MergeMeta(p)
        \/ HashAdd(p)
        \/ GetById(p)
        \/ Out(p)

SpecMerge == Init /\ [][NextMerge]_vars

\* Callers on separate threads: a call may start while another is in
\* progress.  Each access to the store is one step.
ConcTags ==
    { <<Group("pod_name", PodA), Group("namespace_name", NsD),
        Group("container_name", Cont1)>>,
      <<Group("pod_name", PodA), Group("namespace_name", NsD),
        Group("container_name", Cont2)>>,
      <<Group("namespace_name", NsD), Group("pod_name", PodB)>> }

ConcResponses ==
    { Buf(<<KV("kind", Pod)>>),
      Response(<<"name", "uid", "labels">>) }

NextConc ==
    \E p \in Procs :
        \/ Call(p, ConcTags)
        \/ TagToMeta(p)
        \/ HashGet(p)
        \/ GetApiServerInfo(p, ConcResponses)
        \/ MergeMeta(p)
        \/ HashAdd(p)
        \/ GetById(p)
        \/ Out(p)
        \/ Return(p)

SpecConc == Init /\ [][NextConc]_vars

----------------------------------------------------------------------------
(* Vocabulary of the properties *)

Done(p) == pc[p] = "done"
PastParse(p) == pc[p] \notin {"idle", "tag_to_meta"}

TagHas(t, name) == \E i \in 1..Len(t) : t[i].name = name
FirstValue(t, name) ==
    t[CHOOSE i \in 1..Len(t) :
        /\ t[i].name = name
        /\ \A j \in 1..(i - 1) : t[j].name # name].value
HasPair(t) == TagHas(t, "pod_name") /\ TagHas(t, "namespace_name")
PairKey(t) ==
    FirstValue(t, "namespace_name") \o <<":">> \o FirstValue(t, "pod_name")

KeyOf(p) == KeyBytes(meta[p].cache_key, meta[p].cache_key_len)
InTable(ht, k) == \E i \in 1..Len(ht) : ht[i].key = k

HasMetadataKey(api) == \E i \in 1..Len(api.kv) : api.kv[i].k = "metadata"
FirstMetadata(api) ==
    api.kv[CHOOSE i \in 1..Len(api.kv) :
        /\ api.kv[i].k = "metadata"
        /\ \A j \in 1..(i - 1) : api.kv[j].k # "metadata"].v.map
MapHas(mv, k) == \E i \in 1..Len(mv) : mv[i].k = k
ValuesOf(mv, k) == {mv[i].v : i \in {j \in 1..Len(mv) : mv[j].k = k}}
ApiFields == {"uid", "labels", "annotations"}

----------------------------------------------------------------------------
(* C1: whenever flb_kube_meta_get fails at a step (tag parse, cache-key     *)
(* allocation, fetch, merge, cache insert) it returns an error and sets no  *)
(* output, and it never returns success without having set the output.      *)
C1_FailureIsReported ==
    \A p \in Procs :
        Done(p) =>
            /\ g[p].failed # "none" => ret[p] = 0 - 1 /\ out_buf[p] = Nil
            /\ ret[p] = 0 => out_buf[p] # Nil

Witness_C1 ==
    \E p \in Procs : Done(p) /\ g[p].failed = "fetch" /\ ret[p] = 0

(* C2: in sequential resolution, a call that misses the cache on its key    *)
(* calls get_api_server_info exactly once and, when the fetch and the merge *)
(* succeed, calls flb_hash_add exactly once, for that key; a call that hits *)
(* calls neither.                                                           *)
C2_OneFetchOneInsertPerMiss ==
    \A p \in Procs :
        /\ g[p].nfetch <= 1 /\ g[p].nadd <= 1
        /\ Done(p) /\ meta[p].cache_key # Nil /\ g[p].lookup = "miss" =>
              /\ g[p].nfetch = 1
              /\ g[p].failed \in {"none", "insert"} => g[p].nadd = 1
              /\ g[p].failed \in {"fetch", "merge"} => g[p].nadd = 0
              /\ g[p].failed = "none" =>
                    /\ Len(hash_table) = Len(g[p].pre) + 1
                    /\ hash_table[Len(hash_table)].key = KeyOf(p)
        /\ Done(p) /\ g[p].lookup = "hit" =>
              /\ g[p].nfetch = 0 /\ g[p].nadd = 0
              /\ hash_table = g[p].pre

Witness_C2 ==
    \E p \in Procs :
        /\ Done(p) /\ g[p].lookup = "hit"
        /\ \E h \in history : h.key = KeyOf(p)

(* C3: once a key is populated, a later resolve of any tag with the same    *)
(* (namespace, podname) pair that gets past tag_to_meta returns the content *)
(* inserted for that key and calls get_api_server_info no more.             *)
C3_HitReturnsInserted ==
    \A p \in Procs : \A h \in history :
        ( /\ Done(p) /\ g[p].failed # "keyalloc"
          /\ HasPair(tag[p])
          /\ h.namespace = Ptr(FirstValue(tag[p], "namespace_name"))
          /\ h.podname = Ptr(FirstValue(tag[p], "pod_name"))
          /\ InTable(g[p].pre, h.key) )
        => /\ ret[p] = 0
           /\ out_buf[p] # Nil
           /\ Deref(hash_table, out_buf[p]) = h.val
           /\ g[p].nfetch = 0

Witness_C3 ==
    \E p \in Procs : \E h \in history :
        /\ Done(p) /\ HasPair(tag[p]) /\ InTable(g[p].pre, h.key)
        /\ h.key = PairKey(tag[p])
        /\ out_buf[p] # Nil
        /\ h.local # meta[p].mp_sbuf

(* C4: when the fetched response has no top-level "metadata" key, merge     *)
(* fails, the call adds nothing to the cache, and the next resolve of the   *)
(* same tag, on reaching the lookup, misses again and fetches again.        *)
C4_NoMetadataNoEntry ==
    \A p \in Procs :
        /\ ( /\ pc[p] \in {"hash_add", "get_by_id", "out", "done"}
             /\ g[p].resp # Nil
             /\ ~HasMetadataKey(g[p].resp[1]) )
           => /\ g[p].failed = "merge"
              /\ pc[p] \notin {"hash_add", "get_by_id"}
              /\ g[p].nadd = 0
              /\ hash_table = g[p].pre
              /\ meta[p].cache_key # Nil => ~InTable(hash_table, KeyOf(p))
        /\ Done(p) /\ g[p].retry /\ g[p].lookup # "none"
           => g[p].lookup = "miss" /\ g[p].nfetch = 1

Witness_C4 ==
    \E p \in Procs :
        /\ Done(p) /\ g[p].retry /\ meta[p].cache_key # Nil
        /\ g[p].lookup = "miss" /\ g[p].nfetch = 1

(* C5: the declared map size of the merged record equals the number of      *)
(* entries packed, which is the local record's size plus the number of      *)
(* distinct keys among uid, labels, annotations in the metadata map.         *)
C5_DeclaredSizeIsFieldCount ==
    \A p \in Procs :
        out_meta_buf[p] # Nil =>
            LET o == out_meta_buf[p][1]
                mv == FirstMetadata(g[p].resp[1])
            IN  /\ o.size = Len(o.kv)
                /\ Len(o.kv) = meta[p].mp_sbuf[1].size
                               + Cardinality({k \in ApiFields : MapHas(mv, k)})

Witness_C5 ==
    \E p \in Procs :
        /\ out_meta_buf[p] # Nil
        /\ out_meta_buf[p][1].size > Len(out_meta_buf[p][1].kv)

(* C6: for a tag whose match has a pod_name and a namespace_name group, the *)
(* cache key tag_to_meta composes is namespace ":" podname, of length       *)
(* namespace_len + 1 + podname_len, whatever the other groups are.          *)
C6_CacheKeyIsNamespaceColonPod ==
    \A p \in Procs :
        PastParse(p) /\ HasPair(tag[p]) /\ g[p].failed # "keyalloc" =>
            LET ns == FirstValue(tag[p], "namespace_name")
                pod == FirstValue(tag[p], "pod_name")
            IN  /\ meta[p].cache_key = Ptr(ns \o <<":">> \o pod)
                /\ meta[p].cache_key_len = Len(ns) + 1 + Len(pod)
                /\ KeyOf(p) = PairKey(tag[p])

Witness_C6 ==
    \E p \in Procs :
        /\ PastParse(p) /\ HasPair(tag[p]) /\ meta[p].cache_key # Nil
        /\ Len(tag[p]) = 3
        /\ FirstValue(tag[p], "namespace_name") # FirstValue(tag[p], "pod_name")
        /\ TagHas(tag[p], "container_name")

(* C7: a successful merge packs the local record's entries in their order,  *)
(* then pod_id with a uid value if uid was found, then labels, then         *)
(* annotations, in that order whatever the response's order, and nothing    *)
(* for a field that is absent.                                              *)
C7_MergeOrder ==
    \A p \in Procs :
        out_meta_buf[p] # Nil =>
            LET o == out_meta_buf[p][1]
                loc == meta[p].mp_sbuf[1]
                mv == FirstMetadata(g[p].resp[1])
                n == Len(loc.kv)
                added == (IF MapHas(mv, "uid") THEN <<"uid">> ELSE <<>>)
                         \o (IF MapHas(mv, "labels") THEN <<"labels">> ELSE <<>>)
                         \o (IF MapHas(mv, "annotations")
                             THEN <<"annotations">> ELSE <<>>)
            IN  /\ Len(o.kv) = n + Len(added)
                /\ SubSeq(o.kv, 1, n) = loc.kv
                /\ \A i \in 1..Len(added) :
                      /\ o.kv[n + i].k =
                            (IF added[i] = "uid" THEN "pod_id" ELSE added[i])
                      /\ o.kv[n + i].v \in ValuesOf(mv, added[i])

Witness_C7 ==
    \E p \in Procs :
        /\ out_meta_buf[p] # Nil
        /\ Len(out_meta_buf[p][1].kv) = Len(meta[p].mp_sbuf[1].kv) + 3
        /\ FirstMetadata(g[p].resp[1])[1].k = "annotations"

(* C8: every cache entry is the whole output of a merge that succeeded on a *)
(* response fetched (transport OK, status 200) for the namespace and pod of *)
(* its key, and a lookup hits only a key that was inserted.                 *)
C8_CacheHoldsOnlyCompleteMerges ==
    /\ \A i \in 1..Len(hash_table) :
          \E h \in history :
              /\ h.key = hash_table[i].key /\ h.val = hash_table[i].val
              /\ h.resp # Nil /\ h.failed = "none"
              /\ h.namespace # Nil /\ h.podname # Nil
              /\ h.key = h.namespace[1] \o <<":">> \o h.podname[1]
              /\ h.local # Nil
              /\ merge_meta(h.local[1], h.resp[1]) = [ret |-> 0, out |-> Ptr(h.val)]
              /\ SubSeq(h.val.kv, 1, Len(h.local[1].kv)) = h.local[1].kv
    /\ \A p \in Procs :
          g[p].lookup = "hit" => \E h \in history : h.key = KeyOf(p)

Witness_C8 ==
    /\ Len(hash_table) = 2
    /\ \E p \in Procs : g[p].lookup = "hit"

(* C9: on every error path of flb_kube_meta_get and its helpers, the blocks *)
(* allocated during the call (local record, podname, namespace, cache key,  *)
(* API response, merged buffer) are freed before it returns.                *)
C9_ErrorPathsReleaseAll ==
    \A p \in Procs : Done(p) /\ g[p].failed # "none" => live[p] = {}

Witness_C9 ==
    \E p \in Procs : Done(p) /\ g[p].failed = "keyalloc" /\ live[p] # {}

ValidRef(ht, ref) == ref # Nil /\ ref[1] >= 0 /\ ref[1] < Len(ht)
MergedFrom(h) ==
    /\ h.failed = "none" /\ h.resp # Nil /\ h.local # Nil
    /\ merge_meta(h.local[1], h.resp[1]) = [ret |-> 0, out |-> Ptr(h.val)]

(* C11: when two calls for one key run concurrently and both miss, each     *)
(* returns a whole merged record for that key, every entry of the store is  *)
(* a whole merged record that some call inserted, and a later lookup of the *)
(* key returns one of the inserted records.                                 *)
C11_ConcurrentMissesOnlyRepeatWork ==
    /\ \A p \in Procs :
          pc[p] \in {"out", "done"} /\ g[p].lookup = "miss"
          /\ g[p].failed = "none" =>
              /\ ValidRef(hash_table, out_buf[p])
              /\ hash_table[out_buf[p][1] + 1].key = KeyOf(p)
              /\ merge_meta(meta[p].mp_sbuf[1], g[p].resp[1]) =
                    [ret |-> 0, out |-> Ptr(Deref(hash_table, out_buf[p]))]
    /\ \A i \in 1..Len(hash_table) :
          \E h \in history :
              /\ h.key = hash_table[i].key /\ h.val = hash_table[i].val
              /\ MergedFrom(h)
    /\ \A p \in Procs :
          g[p].lookup = "hit" =>
              /\ ValidRef(hash_table, out_buf[p])
              /\ \E h \in history :
                    /\ h.key = KeyOf(p) /\ MergedFrom(h)
                    /\ h.val = Deref(hash_table, out_buf[p])

Witness_C11 ==
    \E p \in Procs : \E q \in Procs \ {p} :
        /\ Done(p) /\ Done(q)
        /\ g[p].lookup = "miss" /\ g[q].lookup = "miss"
        /\ g[p].failed = "none" /\ g[q].failed = "none"
        /\ KeyOf(p) = KeyOf(q)
        /\ ValidRef(hash_table, out_buf[p]) /\ ValidRef(hash_table, out_buf[q])
        /\ Deref(hash_table, out_buf[p]) # Deref(hash_table, out_buf[q])
        /\ Len(hash_table) = 2

(* C12: when uid, labels or annotations occurs more than once in the        *)
(* metadata map, the merged record carries the value of its first           *)
(* occurrence.                                                              *)
FirstOf(mv, k) ==
    mv[CHOOSE i \in 1..Len(mv) :
        /\ mv[i].k = k
        /\ \A j \in 1..(i - 1) : mv[j].k # k].v
OutKeyOf(k) == IF k = "uid" THEN "pod_id" ELSE k

C12_FirstOccurrenceWins ==
    \A p \in Procs :
        out_meta_buf[p] # Nil =>
            LET o == out_meta_buf[p][1]
                n == Len(meta[p].mp_sbuf[1].kv)
                mv == FirstMetadata(g[p].resp[1])
            IN  \A k \in ApiFields :
                    MapHas(mv, k) =>
                        \E i \in (n + 1)..Len(o.kv) :
                            /\ o.kv[i].k = OutKeyOf(k)
                            /\ o.kv[i].v = FirstOf(mv, k)

Witness_C12 ==
    \E p \in Procs :
        /\ out_meta_buf[p] # Nil
        /\ \E k \in ApiFields :
              Cardinality({i \in 1..Len(FirstMetadata(g[p].resp[1])) :
                              FirstMetadata(g[p].resp[1])[i].k = k}) > 1

(* C13: a call goes parse, lookup, then either hit and return, or miss,     *)
(* fetch, merge, insert and return: it fetches only after a miss, inserts   *)
(* only after a successful fetch and a successful merge of its own, and     *)
(* returns success only with the output set.                                *)
C13_StateMachine ==
    \A p \in Procs :
        /\ g[p].lookup # "none" => PastParse(p)
        /\ g[p].nfetch > 0 \/ pc[p] = "get_api_server_info" =>
              g[p].lookup = "miss"
        /\ pc[p] = "merge_meta" =>
              g[p].nfetch = 1 /\ g[p].resp # Nil /\ g[p].failed = "none"
        /\ g[p].nadd > 0 \/ pc[p] = "hash_add" =>
              /\ g[p].lookup = "miss" /\ g[p].nfetch = 1
              /\ g[p].resp # Nil /\ out_meta_buf[p] # Nil
              /\ g[p].failed \in {"none", "insert"}
        /\ Done(p) /\ ret[p] = 0 => out_buf[p] # Nil

(* C14: on a successful miss the caller is handed the copy the store owns,  *)
(* read back by the id flb_hash_add returned, and never the transient       *)
(* merged buffer; that buffer is freed once, after the insert succeeded;    *)
(* whatever the caller is handed is an entry of the store.                  *)
C14_CallerGetsTheCacheCopy ==
    \A p \in Procs :
        /\ g[p].nfree <= 1
        /\ g[p].nfree = 1 => g[p].nadd = 1 /\ g[p].id >= 0
        /\ out_buf[p] # Nil =>
              out_buf[p] # TransientRef /\ ValidRef(hash_table, out_buf[p])
        /\ pc[p] \in {"out", "done"} /\ g[p].lookup = "miss"
           /\ g[p].failed = "none" =>
              /\ g[p].nfree = 1 /\ "merge_buf" \notin live[p]
              /\ out_buf[p] = flb_hash_get_by_id(hash_table, g[p].id)
              /\ hash_table[g[p].id + 1].key = KeyOf(p)
              /\ Deref(hash_table, out_buf[p]) = Content(out_meta_buf[p])

Witness_C14 ==
    \E p \in Procs :
        /\ Done(p) /\ g[p].lookup = "miss" /\ g[p].failed = "none"
        /\ g[p].nfree = 1 /\ g[p].id >= 1
        /\ out_buf[p] = Ptr(g[p].id)

(* C15: get_api_server_info succeeds exactly when there is an upstream, a   *)
(* connection, the request went through, the status is 200 and the body     *)
(* converts; in every other case it fails and sets no output; one call      *)
(* makes at most one HTTP request.                                          *)
C15_FetchSucceedsOnlyOn200 ==
    \A p \in Procs :
        /\ g[p].nhttp <= g[p].nfetch /\ g[p].nhttp <= 1
        /\ g[p].env # Nil =>
              LET e == g[p].env[1]
                  ok == /\ ctx_upstream /\ e.conn /\ e.snprintf # 0 - 1
                        /\ e.http_do = 0 /\ e.status = 200
                        /\ e.pack_json # 0 - 1
              IN  /\ ok <=> g[p].resp # Nil
                  /\ ok <=> g[p].failed # "fetch"
                  /\ ~ok => api_buf[p] = Nil /\ out_meta_buf[p] = Nil
                  /\ ~ctx_upstream \/ ~e.conn => g[p].nhttp = 0

Witness_C15 ==
    \E p \in Procs :
        /\ g[p].env # Nil /\ ctx_upstream
        /\ g[p].env[1].http_do = 0 /\ g[p].env[1].status # 200
        /\ g[p].nhttp = 1 /\ g[p].failed = "fetch" /\ Done(p)

(* C16: a tag that does not match the pattern makes the call return an      *)
(* error with no lookup, no fetch and no insert; the cache is as it was.    *)
C16_NoMatchTouchesNothing ==
    \A p \in Procs :
        PastParse(p) /\ Len(tag[p]) = 0 =>
            /\ Done(p) /\ ret[p] = 0 - 1
            /\ g[p].lookup = "none" /\ g[p].nfetch = 0 /\ g[p].nadd = 0
            /\ out_buf[p] = Nil
            /\ hash_table = g[p].pre

Witness_C16 ==
    \E p \in Procs :
        /\ Done(p) /\ Len(tag[p]) = 0 /\ ret[p] = 0 - 1
        /\ Len(hash_table) >= 1

(* C17: in sequential resolution flb_hash_add is called only by a call      *)
(* whose lookup missed, for a key the cache does not hold; no step of a     *)
(* call, successful or failing, changes or removes an entry.                *)
C17_EntriesAreImmutable ==
    [][ /\ Len(hash_table') >= Len(hash_table)
        /\ SubSeq(hash_table', 1, Len(hash_table)) = hash_table
        /\ \A p \in Procs :
              g'[p].nadd > g[p].nadd =>
                  /\ g[p].lookup = "miss"
                  /\ meta[p].cache_key # Nil =>
                        ~InTable(hash_table, KeyOf(p))
        /\ hash_table' # hash_table =>
              \E p \in Procs :
                  /\ g'[p].nadd > g[p].nadd
                  /\ hash_table' =
                        Append(hash_table,
                               [key |-> KeyOf(p),
                                val |-> Content(out_meta_buf[p])]) ]_vars

Witness_C17 ==
    \E p \in Procs :
        /\ Done(p) /\ g[p].nadd = 1 /\ g[p].failed = "none"
        /\ Len(g[p].pre) >= 1
        /\ SubSeq(hash_table, 1, Len(g[p].pre)) = g[p].pre
        /\ Len(hash_table) = Len(g[p].pre) + 1

(* C18: in sequential resolution a hit returns the record built from the    *)
(* tag that populated the key: its leading entries are that tag's captured  *)
(* fields, whatever the tag being resolved captured.                        *)
LocalPart(rec, n) == SubSeq(rec.kv, 1, n)

C18_HitReturnsFirstTagsFields ==
    \A p \in Procs :
        Done(p) /\ g[p].lookup = "hit" =>
            /\ ValidRef(hash_table, out_buf[p])
            /\ \E h \in history : h.key = KeyOf(p)
            /\ \A h \in history :
                  h.key = KeyOf(p) =>
                      LET rec == Deref(hash_table, out_buf[p])
                          n == Len(h.local[1].kv)
                      IN  /\ Len(rec.kv) >= n
                          /\ LocalPart(rec, n) = h.local[1].kv

Witness_C18 ==
    \E p \in Procs :
        /\ Done(p) /\ g[p].lookup = "hit"
        /\ TagHas(tag[p], "container_name")
        /\ ValidRef(hash_table, out_buf[p])
        /\ \E i \in 1..Len(Deref(hash_table, out_buf[p]).kv) :
              LET kv == Deref(hash_table, out_buf[p]).kv[i]
              IN  /\ kv.k = "container_name"
                  /\ kv.v # Str(FirstValue(tag[p], "container_name"))

====
